---- MODULE Spec2Model ----
(***************************************************************************)
(* Model of src/Data.py: the two-explicit-dates change calculator          *)
(* fetch_all_data, its one-hour cache and the page that calls it.          *)
(*                                                                         *)
(* Prices are numpy float64 values.  They are modelled as exact rationals  *)
(* extended with NaN and the two infinities, because the code divides      *)
(* numpy scalars: a division by zero yields inf or NaN (the warning is     *)
(* silenced at src/Data.py:12) and raises nothing.                         *)
(***************************************************************************)
EXTENDS Integers, Sequences, FiniteSets, TLC

\* ------------------------------------------------------------------ bounds
\* The user can select the dates 1..MaxDate; the provider has observations
\* on the days 0..MaxDate+1 (one day before and one after every selection).
MaxDate == 2
\* Raw provider prices are NaN or one of 0..MaxPrice.
MaxPrice == 2

Dates == 1..MaxDate
ProviderDates == 0..(MaxDate + 1)

\* ------------------------------------------------------------ float values
Abs(n) == IF n < 0 THEN -n ELSE n

RECURSIVE GCD(_, _)
GCD(a, b) == IF b = 0 THEN a ELSE GCD(b, a % b)

NaN == [k |-> "nan", n |-> 0, d |-> 1]
PosInf == [k |-> "inf", n |-> 1, d |-> 1]
NegInf == [k |-> "inf", n |-> -1, d |-> 1]

\* The rational n/d (d # 0) in lowest terms with a positive denominator.
Num(n, d) ==
    LET g == GCD(Abs(n), Abs(d))
        s == IF d < 0 THEN -1 ELSE 1
    IN [k |-> "num", n |-> (s * n) \div g, d |-> Abs(d) \div g]

Zero == Num(0, 1)

IsNaN(x) == x.k = "nan"

\* Python's `x != 0` on a float64: NaN compares unequal to everything.
NotZero(x) == ~(x.k = "num" /\ x.n = 0)

\* a - b
Sub(a, b) ==
    CASE a.k = "nan" \/ b.k = "nan" -> NaN
      [] a.k = "inf" /\ b.k = "inf" -> IF a.n = b.n THEN NaN ELSE a
      [] a.k = "inf" -> a
      [] b.k = "inf" -> IF b.n > 0 THEN NegInf ELSE PosInf
      [] OTHER -> Num(a.n * b.d - b.n * a.d, a.d * b.d)

\* a / b on float64: x/0 is +-inf, 0/0 is NaN, nothing is raised.
Div(a, b) ==
    CASE a.k = "nan" \/ b.k = "nan" -> NaN
      [] a.k = "inf" /\ b.k = "inf" -> NaN
      [] a.k = "inf" -> IF b.n < 0 THEN (IF a.n > 0 THEN NegInf ELSE PosInf) ELSE a
      [] b.k = "inf" -> Zero
      [] b.n = 0 -> IF a.n = 0 THEN NaN ELSE IF a.n > 0 THEN PosInf ELSE NegInf
      [] OTHER -> Num(a.n * b.d, a.d * b.n)

\* a * c for an integer c > 0
Times(a, c) ==
    CASE a.k = "num" -> Num(a.n * c, a.d)
      [] OTHER -> a

One == Num(1, 1)

Prices == {NaN} \cup {Num(n, 1) : n \in 0..MaxPrice}

\* ------------------------------------------------------------ configuration
\* A display name is a sequence of tokens; the token "/" is the character
\* that str.split('/') cuts at.
Slash == "/"

Sym(symbol, name) == [symbol |-> symbol, name |-> name]

StockIndices ==
    << Sym("^GSPC", <<"S&P 500">>), Sym("^IXIC", <<"NASDAQ Composite">>),
       Sym("^FTSE", <<"FTSE 100 (UK)">>), Sym("^N225", <<"Nikkei 225 (Japan)">>),
       Sym("^GDAXI", <<"DAX 30 (Germany)">>), Sym("^NSEI", <<"Nifty 50 (India)">>),
       Sym("^BVSP", <<"Bovespa (Brazil)">>), Sym("^MXX", <<"IPC Mexico">>),
       Sym("^HSI", <<"Hang Seng (Hong Kong)">>), Sym("^STOXX50E", <<"Euro Stoxx 50">>),
       Sym("^SETI", <<"SET Index (Thailand)">>), Sym("^ATH", <<"Athex Composite (Greece)">>),
       Sym("FTSEMIB.MI", <<"FTSE MIB (Italy)">>), Sym("^WIG20", <<"WIG20 (Poland)">>),
       Sym("^FCHI", <<"CAC 40 (France)">>), Sym("^KS11", <<"KOSPI (South Korea)">>),
       Sym("IMOEX.ME", <<"MOEX (Russia)">>),
       Sym("^GSPTSE", <<"S&P", Slash, "TSX (Canada)">>),
       Sym("^AXJO", <<"S&P", Slash, "ASX 200 (Australia)">>),
       Sym("^PSi", <<"PSEi (Philippines)">>), Sym("^AEX", <<"AEX (Netherlands)">>),
       Sym("^TWII", <<"TAIEX (Taiwan)">>), Sym("^STI", <<"Straits Times (Singapore)">>),
       Sym("^BUX", <<"BUX (Hungary)">>), Sym("XU100.IS", <<"BIST 100 (Turkey)">>),
       Sym("^OMX", <<"OMX Stockholm 30 (Sweden)">>) >>

Currencies ==
    << Sym("DX-Y.NYB", <<"US Dollar Index (DXY)">>),
       Sym("EURUSD=X", <<"Euro", Slash, "USD">>),
       Sym("JPY=X", <<"USD", Slash, "JPY">>),
       Sym("GBPUSD=X", <<"British Pound", Slash, "USD">>),
       Sym("INR=X", <<"USD", Slash, "INR">>),
       Sym("CNY=X", <<"USD", Slash, "CNY">>),
       Sym("AUDUSD=X", <<"Australian Dollar", Slash, "USD">>),
       Sym("BRL=X", <<"USD", Slash, "BRL">>),
       Sym("MXN=X", <<"USD", Slash, "MXN">>),
       Sym("CAD=X", <<"USD", Slash, "CAD">>),
       Sym("NZD=X", <<"NZD", Slash, "USD">>),
       Sym("ZAR=X", <<"USD", Slash, "ZAR">>),
       Sym("CHF=X", <<"USD", Slash, "CHF">>),
       Sym("PHP=X", <<"USD", Slash, "PHP">>) >>

Commodities ==
    << Sym("CL=F", <<"Crude Oil (WTI)">>), Sym("BZ=F", <<"Brent Crude Oil">>),
       Sym("NG=F", <<"Natural Gas">>), Sym("HO=F", <<"Heating Oil">>),
       Sym("GC=F", <<"Gold">>), Sym("SI=F", <<"Silver">>), Sym("PL=F", <<"Platinum">>),
       Sym("HG=F", <<"Copper">>), Sym("ZS=F", <<"Soybeans">>),
       Sym("ZL=F", <<"Soybean Oil">>), Sym("LE=F", <<"Cattle">>),
       Sym("ZC=F", <<"Corn">>), Sym("ZW=F", <<"Wheat">>), Sym("KC=F", <<"Coffee">>),
       Sym("CC=F", <<"Cocoa">>), Sym("OJ=F", <<"Orange Juice">>) >>

GovernmentYields ==
    << Sym("^TNX", <<"US 10-Year Yield">>), Sym("^FVX", <<"US 5-Year Yield">>),
       Sym("^TYX", <<"US 30-Year Yield">>), Sym("^GILT10Y", <<"UK 10-Year Yield">>),
       Sym("^IN10Y", <<"India 10-Year Yield">>),
       Sym("^AU10Y", <<"Australia 10-Year Yield">>),
       Sym("^CGB10Y", <<"Canada 10-Year Yield">>),
       Sym("^JGB10Y", <<"Japan 10-Year Yield">>),
       Sym("^FR10Y", <<"France 10-Year Yield">>),
       Sym("^GDBR10Y", <<"Germany 10-Year Yield">>),
       Sym("^BRB10Y", <<"Brazil 10-Year Yield">>) >>

\* The dict SYMBOLS in its insertion order: category -> (symbol -> name).
SYMBOLS ==
    << [category_name |-> "Stock Indices", category_symbols |-> StockIndices],
       [category_name |-> "Currencies", category_symbols |-> Currencies],
       [category_name |-> "Commodities", category_symbols |-> Commodities],
       [category_name |-> "Government Yields", category_symbols |-> GovernmentYields] >>

INVERTED_CURRENCIES == {"EURUSD=X", "GBPUSD=X", "AUDUSD=X", "NZD=X", "CHF=X"}

CategoryNames == {SYMBOLS[c].category_name : c \in DOMAIN SYMBOLS}

AllSymbols ==
    UNION {{SYMBOLS[c].category_symbols[i].symbol :
               i \in DOMAIN SYMBOLS[c].category_symbols} : c \in DOMAIN SYMBOLS}

\* ------------------------------------------------------------------- state
VARIABLES
    provider,         \* the upstream provider: one instrument under test and its behaviour
    date_1, date_2,   \* the two dates of the date inputs / the call's arguments
    market_data_dfs,  \* what the last call of fetch_all_data returned
    pc,               \* calculator: "idle" before the call, "returned" after it;
                      \* page: "start", "waiting" for the user, "rerun" (st.rerun pending)
    requested,        \* the (date_1, date_2) pairs for which ticker.history was requested
    upstream_calls,   \* number of ticker.history requests fetch_all_data issued so far
    cache,            \* st.cache_data of fetch_all_data: (date_1, date_2) -> entry
    now,              \* the clock, in ticks of TickSeconds seconds
    session_state,    \* st.session_state: the default dates and the view mode
    runs,             \* number of script runs (each calls fetch_all_data once)
    last_call         \* the last call of fetch_all_data: whether it was a cache hit,
                      \* and the provider's data when it was made

vars == <<provider, date_1, date_2, market_data_dfs, pc, requested, upstream_calls,
          cache, now, session_state, runs, last_call>>

page_vars == <<cache, now, session_state, runs, last_call>>

\* ---------------------------------------------------------------- provider
\* One observation (a row of the DataFrame returned by ticker.history).
Row(close, open, high, low) == [Close |-> close, Open |-> open, High |-> high, Low |-> low]

\* The undisturbed quote of day d: nonzero, and different from day to day.
BaselineRow(d) == Row(Num(d + 1, 1), Num(d + 1, 1), Num(d + 2, 1), Num(d + 1, 1))

\* What the provider does for one instrument: where (if anywhere) the
\* per-instrument step raises, the days it has an observation for, and the rows.
\*   fail = "history": yf.Ticker / ticker.history raises      (lines 168-169)
\*   fail = "lookup" : the date lookup raises                 (lines 172-173)
\*   fail = "fields" : reading Open/High/Low of the row raises (lines 193-204)
FailKinds == {"history", "lookup", "fields"}

Behaviour(fail, index, rows) == [fail |-> fail, index |-> index, rows |-> rows]

Baseline == Behaviour("none", ProviderDates, [d \in ProviderDates |-> BaselineRow(d)])

FailBehaviours == {Behaviour(f, ProviderDates, Baseline.rows) : f \in FailKinds}

\* Days without an observation (holidays, a symbol the provider does not know).
IndexBehaviours == {Behaviour("none", ix, Baseline.rows) : ix \in SUBSET ProviderDates}

\* Arbitrary closes (missing, zero, nonzero) on the first two selectable days.
CloseBehaviours ==
    {Behaviour("none", ProviderDates,
               [d \in ProviderDates |->
                   IF d = 1 THEN [BaselineRow(d) EXCEPT !.Close = c1]
                   ELSE IF d = 2 THEN [BaselineRow(d) EXCEPT !.Close = c2]
                   ELSE BaselineRow(d)]) :
        c1 \in Prices, c2 \in Prices}

\* Arbitrary Open/High/Low (missing, zero, nonzero) on every day.
FieldValues == {NaN, Zero, Num(MaxPrice, 1)}

FieldBehaviours ==
    {Behaviour("none", ProviderDates,
               [d \in ProviderDates |-> Row(BaselineRow(d).Close, o, h, l)]) :
        o \in FieldValues, h \in FieldValues, l \in FieldValues}

Behaviours == FailBehaviours \cup IndexBehaviours \cup CloseBehaviours \cup FieldBehaviours

\* Behaviours every instrument is put under: each failure, and no data at all.
CoarseBehaviours == FailBehaviours \cup {Baseline, Behaviour("none", {}, Baseline.rows)}

\* Instruments put under every behaviour: the whole Currencies category (the
\* inverted and the plain ones) and the first and last configured instrument.
\* The other instruments take the plain currencies' path through the code.
FineSymbols ==
    {Currencies[i].symbol : i \in DOMAIN Currencies} \cup {"^GSPC", "^BRB10Y"}

Providers ==
    [symbol : AllSymbols, behaviour : CoarseBehaviours]
        \cup [symbol : FineSymbols, behaviour : Behaviours]

\* The behaviour of the provider for `symbol`: every instrument but the one
\* under test is served the baseline.
Upstream(symbol) == IF symbol = provider.symbol THEN provider.behaviour ELSE Baseline

\* ticker.history(start=start, end=end): the observations of the days
\* start <= d < end (yfinance excludes the end day).
History(symbol, start, end) ==
    LET b == Upstream(symbol)
    IN [index |-> {d \in b.index : start <= d /\ d < end}, rows |-> b.rows]

\* -------------------------------------------------------------- calculator
\* name.split('/'): the pieces of a name between its "/" tokens.
RECURSIVE Split(_)
Split(name) ==
    IF \A i \in DOMAIN name : name[i] # Slash
    THEN <<name>>
    ELSE LET i == CHOOSE j \in DOMAIN name :
                      name[j] = Slash /\ \A h \in 1..(j - 1) : name[h] # Slash
         IN <<SubSeq(name, 1, i - 1)>> \o Split(SubSeq(name, i + 1, Len(name)))

\* Lines 183-187: the display name of an inverted currency.
InvertedName(name) ==
    LET name_parts == Split(name)
    IN IF Len(name_parts) = 2
       THEN <<"USD", Slash>> \o name_parts[1]
       ELSE <<"USD", Slash>> \o name

\* A row of the category's DataFrame (the dict appended to data_list).
ChangeRecord(name, category_name, previous_close, last_close, open, high, low, change, percent_change, d1, d2) ==
    [Indicator |-> name, Category |-> category_name,
     PreviousClose |-> previous_close, LastClose |-> last_close,
     Open |-> open, High |-> high, Low |-> low,
     Change |-> change, PercentChange |-> percent_change,
     previous_close_date |-> d1, last_close_date |-> d2]

\* Lines 211-219 and 221-229: the record with np.nan in the seven numeric fields.
NotAvailableRecord(name, category_name, d1, d2) ==
    ChangeRecord(name, category_name, NaN, NaN, NaN, NaN, NaN, NaN, NaN, d1, d2)

\* Line 179 / 192: the instrument is one whose quote is inverted.
IsInverted(category_name, symbol) ==
    category_name = "Currencies" /\ symbol \in INVERTED_CURRENCIES

\* Lines 180-182: both closes are inverted, or neither.
InvertCloses(category_name, symbol, last_close, previous_close) ==
    IsInverted(category_name, symbol) /\ NotZero(last_close) /\ NotZero(previous_close)

\* Lines 193-195: one of Open/High/Low of the last day, zero-guarded on its own.
InvertField(category_name, symbol, value) ==
    IF IsInverted(category_name, symbol) /\ NotZero(value) THEN Div(One, value) ELSE value

\* Lines 172-173: hist.loc[str(date)] if str(date) in hist.index else None.
NoData == [found |-> FALSE, row |-> Row(NaN, NaN, NaN, NaN)]

\* A lookup that falls back to the day before when `date` has no observation.
DataOnOrBefore(hist, date) ==
    IF date \in hist.index THEN [found |-> TRUE, row |-> hist.rows[date]]
    ELSE IF (date - 1) \in hist.index THEN [found |-> TRUE, row |-> hist.rows[date - 1]]
    ELSE NoData

DataOn(hist, date) ==
    IF date \in hist.index THEN [found |-> TRUE, row |-> hist.rows[date]] ELSE NoData

\* A change taken the wrong way round.
ComputeChangeReversed(last_close, previous_close) == Sub(previous_close, last_close)

\* Lines 189-190.
ComputeChange(last_close, previous_close) == Sub(last_close, previous_close)

ComputePercentChange(change, previous_close) == Times(Div(change, previous_close), 100)

\* The outcome of the try block for one instrument: the dict it appends to
\* data_list, or an exception together with the value `name` holds when it is
\* raised (line 185 rebinds it).
Appends(record) == [raised |-> FALSE, record |-> record]

Raises(name) == [raised |-> TRUE, name |-> name]

\* Lines 181-182: a close, inverted when both closes are.
InvertedClose(flip, close) == IF flip THEN Div(One, close) ELSE close

\* Lines 189-209: the change, the zero-guarded Open/High/Low and the record.
Emit(category_name, symbol, name, previous_close, last_close, data_on_date_2, d1, d2) ==
    IF Upstream(symbol).fail = "fields"
    THEN Raises(name)
    ELSE Appends(ChangeRecord(name, category_name, previous_close, last_close,
                     InvertField(category_name, symbol, data_on_date_2.Open),
                     InvertField(category_name, symbol, data_on_date_2.High),
                     InvertField(category_name, symbol, data_on_date_2.Low),
                     ComputeChange(last_close, previous_close),
                     ComputePercentChange(ComputeChange(last_close, previous_close),
                                          previous_close),
                     d1, d2))

\* Lines 176-187: the closes of the two rows and the name, inverted or not.
WithCloses(category_name, symbol, name, flip, data_on_date_1, data_on_date_2, d1, d2) ==
    Emit(category_name, symbol, IF flip THEN InvertedName(name) ELSE name,
         InvertedClose(flip, data_on_date_1.Close),
         InvertedClose(flip, data_on_date_2.Close),
         data_on_date_2, d1, d2)

\* Lines 175-219: both rows are needed; without one the record is not available.
WithData(category_name, symbol, name, data_on_date_1, data_on_date_2, d1, d2) ==
    IF data_on_date_1.found /\ data_on_date_2.found
    THEN WithCloses(category_name, symbol, name,
                    InvertCloses(category_name, symbol,
                                 data_on_date_2.row.Close, data_on_date_1.row.Close),
                    data_on_date_1.row, data_on_date_2.row, d1, d2)
    ELSE Appends(NotAvailableRecord(name, category_name, d1, d2))

\* Lines 168-219, the body of the try block for one instrument.
TryBody(category_name, symbol, name, d1, d2) ==
    IF Upstream(symbol).fail \in {"history", "lookup"}
    THEN Raises(name)
    ELSE WithData(category_name, symbol, name,
                  DataOn(History(symbol, d1 - 1, d2 + 1), d1),
                  DataOn(History(symbol, d1 - 1, d2 + 1), d2), d1, d2)

\* A handler that swallows the exception without appending a record.
ExceptHandlerDropsRecord(data_list, name, category_name, d1, d2) ==
    [data_list |-> data_list, escaped |-> FALSE]

\* A handler that appends the record and raises the exception again.
ExceptHandlerReraises(data_list, name, category_name, d1, d2) ==
    [data_list |-> Append(data_list, NotAvailableRecord(name, category_name, d1, d2)),
     escaped |-> TRUE]

\* Lines 220-229: `except Exception` appends the not-available record to
\* data_list; the exception ends there (escaped = FALSE) and the loop goes on.
ExceptHandler(data_list, name, category_name, d1, d2) ==
    [data_list |-> Append(data_list, NotAvailableRecord(name, category_name, d1, d2)),
     escaped |-> FALSE]

\* Lines 167, 197, 211, 220: the end of the try statement, given its outcome.
EndTry(data_list, outcome, category_name, d1, d2) ==
    IF outcome.raised
    THEN ExceptHandler(data_list, outcome.name, category_name, d1, d2)
    ELSE [data_list |-> Append(data_list, outcome.record), escaped |-> FALSE]

\* Lines 166-229: one iteration of the inner loop.
ProcessSymbol(data_list, category_name, symbol, name, d1, d2) ==
    EndTry(data_list, TryBody(category_name, symbol, name, d1, d2), category_name, d1, d2)

\* Lines 165-229: the inner loop over category_symbols.items(), from item i on.
\* An exception that escapes an iteration ends the loop.
RECURSIVE SymbolLoop(_, _, _, _, _, _)
SymbolLoop(state, category_name, category_symbols, i, d1, d2) ==
    IF i > Len(category_symbols) \/ state.escaped
    THEN state
    ELSE SymbolLoop(ProcessSymbol(state.data_list, category_name,
                                  category_symbols[i].symbol,
                                  category_symbols[i].name, d1, d2),
                    category_name, category_symbols, i + 1, d1, d2)

\* Lines 231-233: a category with records gets its DataFrame.
StoreCategory(category_dataframes, category_name, data_list) ==
    IF data_list # <<>>
    THEN (category_name :> data_list) @@ category_dataframes
    ELSE category_dataframes

\* Lines 231-235: the end of one iteration of the outer loop.
EndCategory(result, category_name, inner) ==
    IF inner.escaped
    THEN [raised |-> TRUE, value |-> <<>>]
    ELSE [raised |-> FALSE,
          value |-> StoreCategory(result.value, category_name, inner.data_list)]

\* Lines 164-233: the outer loop over SYMBOLS.items(), from category c on.
RECURSIVE CategoryLoop(_, _, _, _)
CategoryLoop(result, c, d1, d2) ==
    IF c > Len(SYMBOLS) \/ result.raised
    THEN result
    ELSE CategoryLoop(
             EndCategory(result, SYMBOLS[c].category_name,
                 SymbolLoop([data_list |-> <<>>, escaped |-> FALSE],
                            SYMBOLS[c].category_name, SYMBOLS[c].category_symbols,
                            1, d1, d2)),
             c + 1, d1, d2)

\* Lines 162-235: the body of fetch_all_data (what a cache miss computes):
\* the returned dict, or the exception that reaches the caller.
fetch_all_data(d1, d2) == CategoryLoop([raised |-> FALSE, value |-> <<>>], 1, d1, d2)

\* Number of ticker.history requests of one run of the body: one per instrument.
RequestsPerFetch == Cardinality(AllSymbols)

\* --------------------------------------------------- the calculator, applied
\* The result variable before any call.
NoResult == [raised |-> FALSE, value |-> <<>>]

\* No call of fetch_all_data was made yet.
NoCall == [hit |-> FALSE, provider |-> <<>>]

\* st.session_state with no key set.
NoSession == [has_dates |-> FALSE, start_date |-> 0, end_date |-> 0, view_mode |-> "unset"]

Init ==
    /\ provider \in Providers
    /\ date_1 \in Dates
    /\ date_2 \in Dates
    /\ market_data_dfs = NoResult
    /\ pc = "idle"
    /\ requested = {}
    /\ upstream_calls = 0
    /\ cache = <<>>
    /\ now = 0
    /\ session_state = NoSession
    /\ runs = 0
    /\ last_call = NoCall

\* A call of fetch_all_data(date_1, date_2) that runs the body.
Fetch ==
    /\ pc = "idle"
    /\ market_data_dfs' = fetch_all_data(date_1, date_2)
    /\ requested' = requested \cup {<<date_1, date_2>>}
    /\ upstream_calls' = upstream_calls + RequestsPerFetch
    /\ pc' = "returned"
    /\ UNCHANGED <<provider, date_1, date_2>>
    /\ UNCHANGED page_vars

Next == Fetch

Spec == Init /\ [][Next]_vars

\* ----------------------------------------------------- the page, the cache
\* @st.cache_data(ttl=3600): an entry is served for 3600 seconds.
TTL == 3600
\* Seconds per tick of the model's clock, and the number of ticks it runs.
TickSeconds == 1800
MaxTicks == 2
\* Number of script runs the user's events may start.
MaxRuns == 3

\* The last day the provider has data for when the page runs.
Today == MaxDate

\* The entry of `key` is in the cache and younger than the time-to-live.
Fresh(entries, key, time) ==
    /\ key \in DOMAIN entries
    /\ (time - entries[key].at) * TickSeconds < TTL

\* Lines 156-157, a miss: the result of the body is stored under the
\* arguments (a call that raises stores nothing) and returned.
Store(entries, key, time, result) ==
    [hit |-> FALSE, result |-> result,
     entries |-> IF result.raised
                 THEN entries
                 ELSE (key :> [at |-> time, value |-> result]) @@ entries]

\* fetch_all_data without its cache: every call runs the body.
UncachedFetchAllData(entries, d1, d2, time) ==
    Store(entries, <<d1, d2>>, time, fetch_all_data(d1, d2))

\* Lines 156-157: a call of the decorated fetch_all_data(d1, d2).  A fresh
\* entry is returned as it is; otherwise the body runs, issues its requests
\* and its result is stored.
CachedFetchAllData(entries, d1, d2, time) ==
    IF Fresh(entries, <<d1, d2>>, time)
    THEN [hit |-> TRUE, result |-> entries[<<d1, d2>>].value, entries |-> entries]
    ELSE Store(entries, <<d1, d2>>, time, fetch_all_data(d1, d2))

Max(S) == CHOOSE x \in S : \A y \in S : y <= x

\* Lines 135-153: fetch_last_two_trading_days().  The days of the last five
\* observations of ^GSPC up to today that have a close; the last two of them,
\* or none when fewer than two remain or the request raises.  (Its own cache
\* entry is never fresh when the page consults it: the page calls it only with
\* an empty session, that is on the first run and after a refresh, which
\* clears every cache.)
fetch_last_two_trading_days ==
    LET b == Upstream("^GSPC")
        days == {d \in b.index : d <= Today}
        hist == {d \in days : Cardinality({e \in days : e > d}) < 5}
        valid_data == {d \in hist : ~IsNaN(b.rows[d].Close)}
    IN IF b.fail = "none" /\ Cardinality(valid_data) >= 2
       THEN [found |-> TRUE,
             previous_day_date |-> Max(valid_data \ {Max(valid_data)}),
             last_day_date |-> Max(valid_data)]
       ELSE [found |-> FALSE, previous_day_date |-> 0, last_day_date |-> 0]

\* Lines 376-384: the session's default dates, set when the session has none.
InitialDates(session) ==
    IF session.has_dates
    THEN session
    ELSE LET days == fetch_last_two_trading_days
         IN IF days.found
            THEN [session EXCEPT !.has_dates = TRUE,
                                 !.start_date = days.previous_day_date,
                                 !.end_date = days.last_day_date]
            ELSE [session EXCEPT !.has_dates = TRUE,
                                 !.start_date = Today - 2,
                                 !.end_date = Today - 1]

\* The page with view-mode buttons that clear the cache as Refresh Data does.
AfterFetchViewSwitchClears(button, session, start, end, call) ==
    /\ date_1' = start
    /\ date_2' = end
    /\ market_data_dfs' = call.result
    /\ last_call' = [hit |-> call.hit, provider |-> provider]
    /\ upstream_calls' = IF call.hit THEN upstream_calls
                         ELSE upstream_calls + RequestsPerFetch
    /\ requested' = IF call.hit THEN requested ELSE requested \cup {<<start, end>>}
    /\ runs' = runs + 1
    /\ CASE button = "Refresh Data" ->
              /\ cache' = <<>>
              /\ session_state' = NoSession
              /\ pc' = "rerun"
         [] button \in {"Show Tables", "Show Heatmap"} ->
              /\ cache' = <<>>
              /\ session_state' =
                     [session EXCEPT !.view_mode =
                         IF button = "Show Tables" THEN "tables" ELSE "heatmap"]
              /\ pc' = "rerun"
         [] OTHER ->
              /\ cache' = call.entries
              /\ session_state' =
                     [session EXCEPT !.view_mode =
                         IF session.view_mode = "unset" THEN "tables" ELSE @]
              /\ pc' = "waiting"
    /\ UNCHANGED <<provider, now>>

\* Lines 395-425, after the call of fetch_all_data returned `call`: the
\* buttons, the view mode and the rendering.  `button` is the button whose
\* click started the run ("none" for another event).
AfterFetch(button, session, start, end, call) ==
    /\ date_1' = start
    /\ date_2' = end
    /\ market_data_dfs' = call.result
    /\ last_call' = [hit |-> call.hit, provider |-> provider]
    /\ upstream_calls' = IF call.hit THEN upstream_calls
                         ELSE upstream_calls + RequestsPerFetch
    /\ requested' = IF call.hit THEN requested ELSE requested \cup {<<start, end>>}
    /\ runs' = runs + 1
    /\ CASE button = "Refresh Data" ->
              \* lines 397-400
              /\ cache' = <<>>
              /\ session_state' = NoSession
              /\ pc' = "rerun"
         [] button \in {"Show Tables", "Show Heatmap"} ->
              \* lines 402-408
              /\ cache' = call.entries
              /\ session_state' =
                     [session EXCEPT !.view_mode =
                         IF button = "Show Tables" THEN "tables" ELSE "heatmap"]
              /\ pc' = "rerun"
         [] OTHER ->
              \* lines 410-411, and the rendering
              /\ cache' = call.entries
              /\ session_state' =
                     [session EXCEPT !.view_mode =
                         IF session.view_mode = "unset" THEN "tables" ELSE @]
              /\ pc' = "waiting"
    /\ UNCHANGED <<provider, now>>

\* Lines 386-393: the two date inputs and the call of fetch_all_data.
WithDates(button, session, start, end) ==
    AfterFetch(button, session, start, end, CachedFetchAllData(cache, start, end, now))

\* Lines 375-425: one run of yahoo_finance_page.  d1 and d2 are the values of
\* the two date inputs; a run that finds the session empty sets the default
\* dates, which the inputs then show.
ScriptRun(button, d1, d2) ==
    IF session_state.has_dates
    THEN WithDates(button, session_state, d1, d2)
    ELSE WithDates(button, InitialDates(session_state),
                   InitialDates(session_state).start_date,
                   InitialDates(session_state).end_date)

\* The first run of the script in a session, and the run st.rerun() starts.
Rerun ==
    /\ pc \in {"start", "rerun"}
    /\ ScriptRun("none", date_1, date_2)

\* The user picks another start date / end date: the script runs again.
SelectStartDate ==
    /\ pc = "waiting" /\ runs < MaxRuns
    /\ \E d \in Dates \ {date_1} : ScriptRun("none", d, date_2)

SelectEndDate ==
    /\ pc = "waiting" /\ runs < MaxRuns
    /\ \E d \in Dates \ {date_2} : ScriptRun("none", date_1, d)

\* The user clicks one of the three buttons: the script runs with it pressed.
ClickRefreshData ==
    /\ pc = "waiting" /\ runs < MaxRuns
    /\ ScriptRun("Refresh Data", date_1, date_2)

ClickShowTables ==
    /\ pc = "waiting" /\ runs < MaxRuns
    /\ ScriptRun("Show Tables", date_1, date_2)

ClickShowHeatmap ==
    /\ pc = "waiting" /\ runs < MaxRuns
    /\ ScriptRun("Show Heatmap", date_1, date_2)

\* Time passes.
Tick ==
    /\ pc = "waiting" /\ now < MaxTicks
    /\ now' = now + 1
    /\ UNCHANGED <<provider, date_1, date_2, market_data_dfs, pc, requested,
                   upstream_calls, cache, session_state, runs, last_call>>

\* The data the provider serves before and after it publishes new quotes.
OldData == [symbol |-> "EURUSD=X", behaviour |-> Baseline]

NewData ==
    [symbol |-> "EURUSD=X",
     behaviour |-> Behaviour("none", ProviderDates,
                       [d \in ProviderDates |->
                           [BaselineRow(d) EXCEPT !.Close = Num(d + 2, 1)]])]

\* The provider's data change.
ProviderUpdate ==
    /\ pc = "waiting"
    /\ provider = OldData
    /\ provider' = NewData
    /\ UNCHANGED <<date_1, date_2, market_data_dfs, pc, requested, upstream_calls,
                   cache, now, session_state, runs, last_call>>

InitPage ==
    /\ provider = OldData
    /\ date_1 = 0
    /\ date_2 = 0
    /\ market_data_dfs = NoResult
    /\ pc = "start"
    /\ requested = {}
    /\ upstream_calls = 0
    /\ cache = <<>>
    /\ now = 0
    /\ session_state = NoSession
    /\ runs = 0
    /\ last_call = NoCall

NextPage ==
    \/ Rerun
    \/ SelectStartDate
    \/ SelectEndDate
    \/ ClickRefreshData
    \/ ClickShowTables
    \/ ClickShowHeatmap
    \/ Tick
    \/ ProviderUpdate

SpecPage == InitPage /\ [][NextPage]_vars

\* ------------------------------------------------------- reading a result
Returned == pc = "returned"

\* Positions (category, item) of the configuration.
Positions ==
    UNION {{<<c, i>> : i \in DOMAIN SYMBOLS[c].category_symbols} : c \in DOMAIN SYMBOLS}

CategoryOf(p) == SYMBOLS[p[1]].category_name
SymbolOf(p) == SYMBOLS[p[1]].category_symbols[p[2]].symbol
NameOf(p) == SYMBOLS[p[1]].category_symbols[p[2]].name

\* Whether the returned mapping has a record at position p, and that record.
HasRecord(p) ==
    /\ ~market_data_dfs.raised
    /\ CategoryOf(p) \in DOMAIN market_data_dfs.value
    /\ p[2] <= Len(market_data_dfs.value[CategoryOf(p)])

RecordAt(p) == market_data_dfs.value[CategoryOf(p)][p[2]]

NumericFields(r) ==
    <<r.PreviousClose, r.LastClose, r.Open, r.High, r.Low, r.Change, r.PercentChange>>

AllNotAvailable(r) == \A f \in 1..7 : IsNaN(NumericFields(r)[f])

\* The position of the instrument under test.
UnderTest == CHOOSE p \in Positions : SymbolOf(p) = provider.symbol

\* The per-instrument step of p raises / reaches the computation of lines 176-209.
StepRaises(p) == TryBody(CategoryOf(p), SymbolOf(p), NameOf(p), date_1, date_2).raised

BothDatesFetched(p) ==
    LET hist == History(SymbolOf(p), date_1 - 1, date_2 + 1)
    IN date_1 \in hist.index /\ date_2 \in hist.index

Computed(p) == BothDatesFetched(p) /\ Upstream(SymbolOf(p)).fail = "none"

RawRow(p, date) == Upstream(SymbolOf(p)).rows[date]

\* The names under which the instrument of p can appear in a record.
DisplayNames(p) ==
    IF IsInverted(CategoryOf(p), SymbolOf(p))
    THEN {NameOf(p), InvertedName(NameOf(p))}
    ELSE {NameOf(p)}

\* No two instruments can appear under the same name.
NamesIdentifyInstruments ==
    \A p \in Positions, q \in Positions :
        p # q => DisplayNames(p) \cap DisplayNames(q) = {}

\* ------------------------------------------------------------------ claims
\* C1: the returned mapping has one group per configured category, and each
\* group holds exactly one record per instrument declared in that category, in
\* the declared order, whatever the per-instrument outcome was; the names
\* identify the instruments, so none is omitted, duplicated or misplaced.
C1_OneRecordPerInstrument ==
    Returned =>
        /\ ~market_data_dfs.raised
        /\ DOMAIN market_data_dfs.value = CategoryNames
        /\ \A c \in DOMAIN SYMBOLS :
              Len(market_data_dfs.value[SYMBOLS[c].category_name])
                  = Len(SYMBOLS[c].category_symbols)
        /\ \A p \in Positions :
              /\ RecordAt(p).Category = CategoryOf(p)
              /\ RecordAt(p).Indicator \in DisplayNames(p)
        /\ NamesIdentifyInstruments

\* C1 witness: a call returned although the step of an instrument in the
\* middle of a category raised after its name was rewritten.
C1_Witness ==
    /\ Returned
    /\ provider.symbol = "NZD=X"
    /\ provider.behaviour.fail = "fields"
    /\ StepRaises(UnderTest)

\* C2: a failure inside one instrument's step gives that instrument a record
\* with the seven numeric fields not available, does not reach the caller, and
\* leaves every other instrument's record what its own data make it.
C2_FailureIsContained ==
    (Returned /\ StepRaises(UnderTest)) =>
        /\ ~market_data_dfs.raised
        /\ HasRecord(UnderTest)
        /\ AllNotAvailable(RecordAt(UnderTest))
        /\ \A p \in Positions \ {UnderTest} :
              /\ HasRecord(p)
              /\ RecordAt(p) =
                    TryBody(CategoryOf(p), SymbolOf(p), NameOf(p), date_1, date_2).record

\* C2 witness: the history request of an instrument raised, and the
\* instruments after it still have records with values.
C2_Witness ==
    /\ Returned
    /\ provider.symbol = "CL=F"
    /\ provider.behaviour.fail = "history"
    /\ date_1 < date_2
    /\ HasRecord(<<4, 1>>)
    /\ ~AllNotAvailable(RecordAt(<<4, 1>>))
    /\ ~AllNotAvailable(RecordAt(<<1, 1>>))

\* v is the raw value or its reciprocal.
FromRaw(v, raw) == v = raw \/ v = Div(One, raw)

\* C4: previous and last values come only from the observations dated exactly
\* date_1 and date_2; when the provider has no observation on either date the
\* record is not available, whatever it has on the days around them.
C4_OnlyTheTwoDates ==
    Returned =>
        \A p \in Positions :
            LET b == Upstream(SymbolOf(p))
                r == RecordAt(p)
            IN /\ HasRecord(p)
               /\ (date_1 \notin b.index \/ date_2 \notin b.index) => AllNotAvailable(r)
               /\ ~AllNotAvailable(r) =>
                     /\ FromRaw(r.PreviousClose, b.rows[date_1].Close)
                     /\ FromRaw(r.LastClose, b.rows[date_2].Close)
                     /\ FromRaw(r.Open, b.rows[date_2].Open)
                     /\ FromRaw(r.High, b.rows[date_2].High)
                     /\ FromRaw(r.Low, b.rows[date_2].Low)

\* C4 witness: date_1 has no observation while the day before it and date_2
\* have one, and the record is not available.
C4_Witness ==
    /\ Returned
    /\ date_1 < date_2
    /\ date_1 \notin provider.behaviour.index
    /\ (date_1 - 1) \in provider.behaviour.index
    /\ date_2 \in provider.behaviour.index
    /\ AllNotAvailable(RecordAt(UnderTest))

\* C5 (as claimed): whenever the possibly inverted previous close is zero, the
\* record is a not-available record.
C5_ZeroPreviousCloseNotAvailable ==
    Returned =>
        \A p \in Positions :
            (Computed(p) /\ RawRow(p, date_1).Close = Zero) =>
                (HasRecord(p) /\ AllNotAvailable(RecordAt(p)))

\* C6 (as claimed): an observation with a missing close counts as none, so a
\* missing close on date_1 or date_2 gives a record with all numeric fields
\* not available, Open, High and Low included.
C6_MissingCloseNotAvailable ==
    Returned =>
        \A p \in Positions :
            (Computed(p) /\ (IsNaN(RawRow(p, date_1).Close) \/ IsNaN(RawRow(p, date_2).Close)))
                => (HasRecord(p) /\ AllNotAvailable(RecordAt(p)))

\* What C7 claims for one price field.
ZeroGuarded(p, raw) ==
    IF IsInverted(CategoryOf(p), SymbolOf(p)) /\ raw # Zero THEN Div(One, raw) ELSE raw

\* C7 (as claimed): with both dates present, each of the five price fields of
\* an inverted instrument is zero-guarded on its own (reciprocal when the raw
\* value is nonzero, unchanged when it is zero) and the fields of any other
\* instrument are the raw values.
C7_EachFieldZeroGuarded ==
    Returned =>
        \A p \in Positions :
            Computed(p) =>
                /\ HasRecord(p)
                /\ RecordAt(p).PreviousClose = ZeroGuarded(p, RawRow(p, date_1).Close)
                /\ RecordAt(p).LastClose = ZeroGuarded(p, RawRow(p, date_2).Close)
                /\ RecordAt(p).Open = ZeroGuarded(p, RawRow(p, date_2).Open)
                /\ RecordAt(p).High = ZeroGuarded(p, RawRow(p, date_2).High)
                /\ RecordAt(p).Low = ZeroGuarded(p, RawRow(p, date_2).Low)

\* The non-USD side of a configured "X/USD" or "USD/X" name.
NonUsdSide(name) ==
    LET parts == Split(name)
    IN IF parts[1] = <<"USD">> THEN parts[2] ELSE parts[1]

IsNumber(x) == x.k = "num"

\* C8 (as claimed): an inverted instrument with nonzero raw closes is emitted
\* under the name "USD/<base>", <base> being the non-USD side of its configured
\* name, and the name of an instrument outside the set is never rewritten.
C8_InvertedNameIsUsdBase ==
    Returned =>
        \A p \in Positions :
            Computed(p) =>
                /\ HasRecord(p)
                /\ (/\ IsInverted(CategoryOf(p), SymbolOf(p))
                    /\ IsNumber(RawRow(p, date_1).Close) /\ RawRow(p, date_1).Close # Zero
                    /\ IsNumber(RawRow(p, date_2).Close) /\ RawRow(p, date_2).Close # Zero)
                      => RecordAt(p).Indicator = <<"USD", Slash>> \o NonUsdSide(NameOf(p))
                /\ ~IsInverted(CategoryOf(p), SymbolOf(p))
                      => RecordAt(p).Indicator = NameOf(p)

\* C9: every record with available closes is consistent with its own emitted
\* closes: Change ($) = Last Close - Previous Close, and, the previous close
\* being nonzero, Change (%) = Change ($) / Previous Close * 100.  The
\* equations are stated by cross-multiplication in the integers.
C9_ChangeConsistent ==
    Returned =>
        \A p \in Positions :
            LET r == RecordAt(p)
                prev == r.PreviousClose
                last == r.LastClose
                chg == r.Change
                pct == r.PercentChange
            IN (HasRecord(p) /\ IsNumber(prev) /\ IsNumber(last)) =>
                  /\ IsNumber(chg)
                  /\ chg.n * last.d * prev.d = (last.n * prev.d - prev.n * last.d) * chg.d
                  /\ prev.n # 0 =>
                        /\ IsNumber(pct)
                        /\ pct.n * chg.d * prev.n = 100 * chg.n * prev.d * pct.d

\* C9 witness: an inverted currency whose emitted closes are the reciprocals
\* 1/1 and 1/2 of the raw closes, with a nonzero change.
C9_Witness ==
    /\ Returned
    /\ provider.symbol = "EURUSD=X"
    /\ HasRecord(UnderTest)
    /\ RecordAt(UnderTest).PreviousClose = Num(1, 1)
    /\ RecordAt(UnderTest).LastClose = Num(1, 2)
    /\ RecordAt(UnderTest).Change = Num(-1, 2)
    /\ RecordAt(UnderTest).PercentChange = Num(-50, 1)
    /\ RecordAt(<<1, 1>>).PercentChange = Num(50, 1)

\* C3 (as claimed): a selection whose end date is earlier than its start date
\* is rejected before any fetch, so no provider request is ever issued for
\* such a (start, end) pair.
C3_EndBeforeStartNeverFetched ==
    \A pair \in requested : ~(pair[2] < pair[1])

\* C10: a call of fetch_all_data whose arguments have an entry stored less
\* than the time-to-live ago and not cleared by a refresh since returns the
\* records of that entry and issues no upstream request, whatever the
\* provider's data have become.
C10_SecondCallServedFromCache ==
    [][(runs' = runs + 1 /\ Fresh(cache, <<date_1', date_2'>>, now)) =>
          /\ market_data_dfs' = cache[<<date_1', date_2'>>].value
          /\ upstream_calls' = upstream_calls
          /\ requested' = requested]_vars

\* C10 witness: a second call was served from the cache after the provider's
\* data changed: what it returned is not what the provider would give now.
C10_Witness ==
    /\ runs >= 2
    /\ last_call.hit
    /\ last_call.provider = NewData
    /\ date_1 < date_2
    /\ market_data_dfs # fetch_all_data(date_1, date_2)

\* The time-to-live of the entry of `key` has elapsed at `time`.
Expired(entries, key, time) == (time - entries[key].at) * TickSeconds >= TTL

\* C11: an entry that a call would be served from stops being served only by
\* a step that is the Refresh Data click, which empties the cache and is
\* followed by a run that misses and requests every instrument from the
\* provider again, or by the passage of time that makes the entry's age reach
\* the time-to-live of 3600 seconds; every other step (a change of the
\* provider's data, a view-mode switch, another date) leaves the entry and
\* its value in place and served.
C11_OnlyRefreshOrExpiryInvalidates ==
    [][/\ \A key \in DOMAIN cache :
             (Fresh(cache, key, now) /\ ~ClickRefreshData) =>
                 /\ key \in DOMAIN cache'
                 /\ cache'[key] = cache[key]
                 /\ Fresh(cache', key, now') \/ (Tick /\ Expired(cache, key, now'))
       /\ ClickRefreshData => (cache' = <<>> /\ pc' = "rerun")
       /\ (Rerun /\ cache = <<>>) =>
             /\ ~last_call'.hit
             /\ upstream_calls' = upstream_calls + RequestsPerFetch
             /\ <<date_1', date_2'>> \in requested']_vars

\* C11 witness: the provider's data changed while an entry was cached, the
\* user clicked Refresh Data within the time-to-live, and the run that
\* followed requested the same dates from the provider a second time and
\* shows the new data.
C11_Witness ==
    /\ pc = "waiting"
    /\ now = 0
    /\ provider = NewData
    /\ runs = 3
    /\ ~last_call.hit
    /\ date_1 < date_2
    /\ requested = {<<date_1, date_2>>}
    /\ upstream_calls = 2 * RequestsPerFetch
    /\ Fresh(cache, <<date_1, date_2>>, now)
    /\ market_data_dfs = fetch_all_data(date_1, date_2)

====
